---- MODULE Spec2Model ----
(***************************************************************************)
(* Model of src/mapproxy_wrapper.py (avnav-mapproxy-plugin): the           *)
(* configuration merge (_mergeCfg, layerListToDict, layerDictToList), the  *)
(* layer/cache extraction and persistence (parseAndCheckConfig,            *)
(* createConfigAndMappings), the proxy lifecycle (createProxy, getStatus,  *)
(* getFatalError, OwnLogHandler), the WSGI environment synthesis           *)
(* (_getWsgiEnv) and the request path (handleRequest).                     *)
(*                                                                         *)
(* Python values are tagged tuples:                                        *)
(*   <<"none">>  <<"int", n>>  <<"str", s>>  <<"bool", b>>                 *)
(*   <<"list", <<v1, ..., vn>> >>                                          *)
(*   <<"dict", << <<k1, v1>>, ..., <<kn, vn>> >> >>  (insertion ordered)   *)
(* and a raised exception is <<"error", kind, text>>.                      *)
(***************************************************************************)
EXTENDS Integers, Sequences, FiniteSets, TLC

VARIABLES
  \* merge harness: child document, base document, result of _mergeCfg
  mCurrent, mBase, mResult,
  \* environment harness: request headers, result of _getWsgiEnv
  hHeaders, hEnv,
  \* the file system: file name -> content; mtime of the config file
  fs, mtime,
  \* MapProxyWrapper: self.mapproxy, self.configTimeStamp, self.fatalError,
  \* self.layerMappings; OwnLogHandler: self.handler.fatalError
  mapproxy, configTimeStamp, fatalError, layerMappings, handlerFatal,
  \* history: the last call with its outcome, and the source of the last
  \* completed createConfigAndMappings
  ret, prevBuild,
  \* concurrency: where the thread running createProxy is, where the thread
  \* running handleRequest is and what it read from self.mapproxy
  builder, request

mergeVars == <<mCurrent, mBase, mResult>>
envVars == <<hHeaders, hEnv>>
wrapperVars == <<mapproxy, configTimeStamp, fatalError, layerMappings, handlerFatal>>
threadVars == <<builder, request>>
lifeVars == <<fs, mtime, mapproxy, configTimeStamp, fatalError, layerMappings, handlerFatal,
              ret, prevBuild, builder, request>>
vars == <<mCurrent, mBase, mResult, hHeaders, hEnv, fs, mtime, mapproxy, configTimeStamp,
          fatalError, layerMappings, handlerFatal, ret, prevBuild, builder, request>>

\* ------------------------------------------------------------------------
\* Python values
\* ------------------------------------------------------------------------
NoneV == <<"none">>
I(n) == <<"int", n>>
S(s) == <<"str", s>>
B(b) == <<"bool", b>>
L(items) == <<"list", items>>
D(pairs) == <<"dict", pairs>>
Err(kind, text) == <<"error", kind, text>>
Pending == <<"pending">>

\* a statement "name = expression": the expression is evaluated once and the
\* rest of the code runs with its value
Bind(value, Rest(_)) == CHOOSE r \in {Rest(v) : v \in {value}} : TRUE

PyType(v) == v[1]
IsError(v) == v[1] = "error"
IsDict(v) == v[1] = "dict"
IsList(v) == v[1] = "list"
Items(d) == d[2]

Keys(d) == {Items(d)[i][1] : i \in 1..Len(Items(d))}
KeyIndex(d, k) == CHOOSE i \in 1..Len(Items(d)) : Items(d)[i][1] = k
HasKey(d, k) == k \in Keys(d)
\* d[k]
Get(d, k) == Items(d)[KeyIndex(d, k)][2]
\* d.get(k, default)
GetOr(d, k, default) == IF HasKey(d, k) THEN Get(d, k) ELSE default
\* d[k] = v : an existing key keeps its position, a new key is appended
Put(d, k, v) ==
  IF HasKey(d, k)
  THEN D([Items(d) EXCEPT ![KeyIndex(d, k)] = <<k, v>>])
  ELSE D(Append(Items(d), <<k, v>>))

RECURSIVE DictUpdateFrom(_, _, _)
DictUpdateFrom(d, pairs, i) ==
  IF i > Len(pairs) THEN d
  ELSE Bind(Put(d, pairs[i][1], pairs[i][2]), LAMBDA nd : DictUpdateFrom(nd, pairs, i + 1))
\* d.update(other)
DictUpdate(d, other) == DictUpdateFrom(d, Items(other), 1)

\* ------------------------------------------------------------------------
\* layerListToDict / layerDictToList
\* ------------------------------------------------------------------------
RECURSIVE LayerListToDictFrom(_, _, _)
LayerListToDictFrom(items, i, rt) ==
  IF i > Len(items) THEN rt
  ELSE IF ~IsDict(items[i]) THEN Err("AttributeError", "get")
  ELSE IF GetOr(items[i], "name", NoneV) = NoneV
       THEN Err("Exception", "missing name in list layerlist")
  ELSE IF PyType(Get(items[i], "name")) # "str" THEN Err("TypeError", "name")
  ELSE Bind(Put(rt, Get(items[i], "name")[2], items[i]), LAMBDA nrt :
         LayerListToDictFrom(items, i + 1, nrt))

layerListToDict(l) ==
  IF IsDict(l) THEN l
  ELSE IF IsList(l) THEN LayerListToDictFrom(Items(l), 1, D(<<>>))
  ELSE IF PyType(l) = "str" THEN Err("AttributeError", "get")
  ELSE Err("TypeError", "not iterable")

RECURSIVE LayerDictToListFrom(_, _, _)
LayerDictToListFrom(pairs, i, rt) ==
  IF i > Len(pairs) THEN L(rt)
  ELSE IF ~IsDict(pairs[i][2]) THEN Err("TypeError", "item assignment")
  ELSE Bind(Append(rt, Put(pairs[i][2], "name", S(pairs[i][1]))), LAMBDA nrt :
         LayerDictToListFrom(pairs, i + 1, nrt))

layerDictToList(d) == LayerDictToListFrom(Items(d), 1, <<>>)

\* lines 134-136 and 139-141: layers=layerListToDict(base[k]);
\* layers.update(layerListToDict(v)); base[k]=layerDictToList(layers)
ReconcileLayers(bv, v) ==
  Bind(layerListToDict(bv), LAMBDA layers :
    IF IsError(layers) THEN layers
    ELSE Bind(layerListToDict(v), LAMBDA upd :
           IF IsError(upd) THEN upd
           ELSE Bind(DictUpdate(layers, upd), LAMBDA updated : layerDictToList(updated))))

\* ------------------------------------------------------------------------
\* _mergeCfg(current, base, isFirstLevel): merges current into base and
\* returns base, or the exception raised at the first offending key
\* ------------------------------------------------------------------------
\* mutant: only the shape (mapping / sequence / scalar) is compared
TypesDiffer_ShapeOnly(bv, v) ==
  (IF PyType(bv) \in {"dict", "list"} THEN PyType(bv) ELSE "scalar")
    # (IF PyType(v) \in {"dict", "list"} THEN PyType(v) ELSE "scalar")
\* line 128: type(base[k]) != type(v)
TypesDiffer(bv, v) ==
  PyType(bv) # PyType(v)

\* line 131 / 138: k == 'layers' and isFirstLevel
IsFirstLevelLayers(k, isFirstLevel) ==
  k = "layers" /\ isFirstLevel

\* mutant: the base's value is kept (merge direction inverted)
Overwrite_KeepBase(bv, v) ==
  bv
\* line 146: base[k]=v
Overwrite(bv, v) ==
  v

RECURSIVE MergeItems(_, _, _, _)
MergeItems(items, i, base, isFirstLevel) ==
  IF i > Len(items) THEN base
  ELSE
    LET k == items[i][1]
        v == items[i][2]
    IN IF ~HasKey(base, k)
       THEN Bind(Put(base, k, v), LAMBDA nbase :
              MergeItems(items, i + 1, nbase, isFirstLevel))
       ELSE
         Bind(Get(base, k), LAMBDA bv :
           Bind(IF TypesDiffer(bv, v)
                THEN IF ~IsFirstLevelLayers(k, isFirstLevel)
                     THEN Err("Exception", "cannot merge different types")
                     ELSE ReconcileLayers(bv, v)
                ELSE IF IsFirstLevelLayers(k, isFirstLevel)
                     THEN ReconcileLayers(bv, v)
                     ELSE IF IsDict(bv)
                          THEN MergeItems(Items(v), 1, bv, FALSE)
                          ELSE Overwrite(bv, v),
                LAMBDA merged :
                  IF IsError(merged) THEN merged
                  ELSE Bind(Put(base, k, merged), LAMBDA nbase :
                         MergeItems(items, i + 1, nbase, isFirstLevel))))

mergeCfg(current, base, isFirstLevel) ==
  Bind(Items(current), LAMBDA items : MergeItems(items, 1, base, isFirstLevel))

IsMergeConflict(r) == IsError(r) /\ r[3] = "cannot merge different types"

\* ------------------------------------------------------------------------
\* _getWsgiEnv: strings are sequences of characters, the environment is an
\* insertion-ordered dict from key to value
\* ------------------------------------------------------------------------
LowerCase == <<"a", "b", "c", "d", "e", "f", "g", "h", "i", "j", "k", "l", "m", "n", "o", "p", "q", "r", "s", "t", "u", "v", "w", "x", "y", "z">>
UpperCase == <<"A", "B", "C", "D", "E", "F", "G", "H", "I", "J", "K", "L", "M", "N", "O", "P", "Q", "R", "S", "T", "U", "V", "W", "X", "Y", "Z">>
\* str.upper() on one character
UpperChar(c) ==
  IF \E i \in 1..Len(LowerCase) : LowerCase[i] = c
  THEN UpperCase[CHOOSE i \in 1..Len(LowerCase) : LowerCase[i] = c]
  ELSE c
\* str.lower() on one character
LowerChar(c) ==
  IF \E i \in 1..Len(UpperCase) : UpperCase[i] = c
  THEN LowerCase[CHOOSE i \in 1..Len(UpperCase) : UpperCase[i] = c]
  ELSE c
LowerStr(str) == [i \in 1..Len(str) |-> LowerChar(str[i])]
\* line 365: k.replace('-', '_').upper()
NormalizeName(name) ==
  [i \in 1..Len(name) |-> UpperChar(IF name[i] = "-" THEN "_" ELSE name[i])]

IsSpace(c) == c \in {" ", "\t"}
RECURSIVE LStrip(_)
LStrip(str) == IF str # <<>> /\ IsSpace(Head(str)) THEN LStrip(Tail(str)) ELSE str
RECURSIVE RStrip(_)
RStrip(str) ==
  IF str # <<>> /\ IsSpace(str[Len(str)]) THEN RStrip(SubSeq(str, 1, Len(str) - 1)) ELSE str
\* line 366: v.strip()
Strip(str) == RStrip(LStrip(str))

\* position of the first '?' in the path, 0 when there is none
FirstQuery(path) ==
  IF \E i \in 1..Len(path) : path[i] = "?"
  THEN CHOOSE i \in 1..Len(path) : path[i] = "?" /\ \A j \in 1..(i - 1) : path[j] # "?"
  ELSE 0
\* urllib.parse.unquote on the escapes the model's paths hold
RECURSIVE Unquote(_)
Unquote(str) ==
  IF str = <<>> THEN <<>>
  ELSE IF Len(str) >= 3 /\ SubSeq(str, 1, 3) = <<"%", "2", "0">>
       THEN <<" ">> \o Unquote(SubSeq(str, 4, Len(str)))
       ELSE <<Head(str)>> \o Unquote(Tail(str))

\* email.message.Message.get(name): the first header of that name, case
\* insensitive; NoHeader when there is none
NoHeader == <<"<none>">>
HeaderGet(headers, name) ==
  IF \E i \in 1..Len(headers) : LowerStr(headers[i][1]) = name
  THEN headers[CHOOSE i \in 1..Len(headers) :
                 /\ LowerStr(headers[i][1]) = name
                 /\ \A j \in 1..(i - 1) : LowerStr(headers[j][1]) # name][2]
  ELSE NoHeader

K_SERVER_NAME == <<"S", "E", "R", "V", "E", "R", "_", "N", "A", "M", "E">>
K_GATEWAY_INTERFACE == <<"G", "A", "T", "E", "W", "A", "Y", "_", "I", "N", "T", "E", "R", "F", "A", "C", "E">>
K_SERVER_PORT == <<"S", "E", "R", "V", "E", "R", "_", "P", "O", "R", "T">>
K_REMOTE_HOST == <<"R", "E", "M", "O", "T", "E", "_", "H", "O", "S", "T">>
K_CONTENT_LENGTH == <<"C", "O", "N", "T", "E", "N", "T", "_", "L", "E", "N", "G", "T", "H">>
K_SCRIPT_NAME == <<"S", "C", "R", "I", "P", "T", "_", "N", "A", "M", "E">>
K_SERVER_PROTOCOL == <<"S", "E", "R", "V", "E", "R", "_", "P", "R", "O", "T", "O", "C", "O", "L">>
K_SERVER_SOFTWARE == <<"S", "E", "R", "V", "E", "R", "_", "S", "O", "F", "T", "W", "A", "R", "E">>
K_REQUEST_METHOD == <<"R", "E", "Q", "U", "E", "S", "T", "_", "M", "E", "T", "H", "O", "D">>
K_PATH_INFO == <<"P", "A", "T", "H", "_", "I", "N", "F", "O">>
K_QUERY_STRING == <<"Q", "U", "E", "R", "Y", "_", "S", "T", "R", "I", "N", "G">>
K_REMOTE_ADDR == <<"R", "E", "M", "O", "T", "E", "_", "A", "D", "D", "R">>
K_CONTENT_TYPE == <<"C", "O", "N", "T", "E", "N", "T", "_", "T", "Y", "P", "E">>
HTTP_PREFIX == <<"H", "T", "T", "P", "_">>
H_CONTENT_TYPE == <<"c", "o", "n", "t", "e", "n", "t", "-", "t", "y", "p", "e">>
H_CONTENT_LENGTH == <<"c", "o", "n", "t", "e", "n", "t", "-", "l", "e", "n", "g", "t", "h">>
DefaultContentType == <<"t", "e", "x", "t", "/", "p", "l", "a", "i", "n">>

\* lines 364-372: the loop over handler.headers.items()
RECURSIVE FoldHeaders(_, _, _)
FoldHeaders(headers, i, env) ==
  IF i > Len(headers) THEN env
  ELSE LET k == NormalizeName(headers[i][1])
           v == Strip(headers[i][2])
       IN IF HasKey(env, k) THEN FoldHeaders(headers, i + 1, env)
          ELSE IF HasKey(env, HTTP_PREFIX \o k)
               THEN FoldHeaders(headers, i + 1,
                      Put(env, HTTP_PREFIX \o k, Get(env, HTTP_PREFIX \o k) \o <<",">> \o v))
               ELSE FoldHeaders(headers, i + 1, Put(env, HTTP_PREFIX \o k, v))

\* lines 329-362: the keys assigned before the headers are folded in
WellKnownEnv(handler, prefix) ==
  LET q == FirstQuery(handler.path)
      path == IF q = 0 THEN handler.path ELSE SubSeq(handler.path, 1, q - 1)
      query == IF q = 0 THEN <<>> ELSE SubSeq(handler.path, q + 1, Len(handler.path))
      unq == Unquote(path)
      ctype == HeaderGet(handler.headers, H_CONTENT_TYPE)
      length == HeaderGet(handler.headers, H_CONTENT_LENGTH)
  IN D(<< <<K_SERVER_NAME, <<"a", "v", "n", "a", "v">>>>,
          <<K_GATEWAY_INTERFACE, <<"C", "G", "I", "/", "1", ".", "1">>>>,
          <<K_SERVER_PORT, handler.server_port>>,
          <<K_REMOTE_HOST,
            IF handler.address_string # handler.client_address THEN handler.address_string
            ELSE <<>> >>,
          <<K_CONTENT_LENGTH, IF length # NoHeader /\ length # <<>> THEN length ELSE <<>> >>,
          <<K_SCRIPT_NAME, <<>> >>,
          <<K_SERVER_PROTOCOL, handler.request_version>>,
          <<K_SERVER_SOFTWARE, <<"W", "S", "G", "I", "S", "e", "r", "v", "e", "r", "/", "0", ".", "2">>>>,
          <<K_REQUEST_METHOD, handler.command>>,
          <<K_PATH_INFO, SubSeq(unq, Len(prefix) + 1, Len(unq))>>,
          <<K_QUERY_STRING, query>>,
          <<K_REMOTE_ADDR, handler.client_address>>,
          <<K_CONTENT_TYPE, IF ctype = NoHeader THEN DefaultContentType ELSE ctype>> >>)

getWsgiEnv(handler, prefix) ==
  FoldHeaders(handler.headers, 1, WellKnownEnv(handler, prefix))

\* ------------------------------------------------------------------------
\* Files
\* ------------------------------------------------------------------------
Absent == <<"absent">>
Malformed == <<"malformed">>
Partial == <<"partial">>

ConfigFile == "mapproxy.yaml"
BaseFile == "base.yaml"
AbsoluteFile == "/etc/abs.yaml"
\* line 110-111: configFile+".normal", configFile+".offline"
normalConfig == "mapproxy.yaml.normal"
offlineConfig == "mapproxy.yaml.offline"
\* line 216: outname+".tmp"
TmpName(outname) ==
  IF outname = normalConfig THEN "mapproxy.yaml.normal.tmp" ELSE "mapproxy.yaml.offline.tmp"
FileNames ==
  {ConfigFile, BaseFile, normalConfig, offlineConfig,
   TmpName(normalConfig), TmpName(offlineConfig)}
\* os.path.isabs
IsAbs(name) == name = AbsoluteFile

\* line 210-211
getConfigName(isOffline) == IF ~isOffline THEN normalConfig ELSE offlineConfig

DictRemove(d, k) == D(SelectSeq(Items(d), LAMBDA pr : pr[1] # k))

\* ------------------------------------------------------------------------
\* _loadConfigFile / _mergeBaseFiles
\* ------------------------------------------------------------------------
RECURSIVE loadConfigFile(_, _)
RECURSIVE MergeBases(_, _, _, _)
\* lines 154-158: the loop over baseFiles
MergeBases(files, cfg, baseFiles, i) ==
  IF i > Len(baseFiles) THEN cfg
  ELSE IF IsAbs(baseFiles[i]) THEN MergeBases(files, cfg, baseFiles, i + 1)
  ELSE Bind(loadConfigFile(files, baseFiles[i]), LAMBDA baseCfg :
         IF IsError(baseCfg) THEN baseCfg
         ELSE Bind(mergeCfg(cfg, baseCfg, TRUE), LAMBDA merged :
                IF IsError(merged) THEN merged
                ELSE MergeBases(files, merged, baseFiles, i + 1)))

mergeBaseFiles(files, cfg) ==
  IF HasKey(cfg, "base")
  THEN LET bf == Get(cfg, "base")
           baseFiles == IF PyType(bf) = "str" THEN <<bf[2]>>
                        ELSE [i \in 1..Len(Items(bf)) |-> Items(bf)[i][2]]
       IN MergeBases(files, DictRemove(cfg, "base"), baseFiles, 1)
  ELSE cfg

loadConfigFile(files, file) ==
  IF files[file] = Absent THEN Err("Exception", "config file not found")
  ELSE IF files[file] = Malformed THEN Err("YAMLError", "could not parse")
  ELSE mergeBaseFiles(files, files[file])

\* ------------------------------------------------------------------------
\* parseAndCheckConfig (documents with a mapping of mappings under sources
\* and caches, and layers whose sources are lists of cache names)
\* ------------------------------------------------------------------------
\* lines 177-181: every source gets seed_only=True
MarkSeedOnly(cfg) ==
  IF ~HasKey(cfg, "sources") \/ Get(cfg, "sources") = NoneV THEN cfg
  ELSE LET src == Items(Get(cfg, "sources"))
       IN Put(cfg, "sources",
              D([i \in 1..Len(src) |-> <<src[i][1], Put(src[i][2], "seed_only", B(TRUE))>>]))

\* lines 191-193: mapping-form layers get their key as name
NameLayers(cfg) ==
  LET layers == Get(cfg, "layers")
  IN IF IsList(layers) THEN cfg
     ELSE Put(cfg, "layers",
              D([i \in 1..Len(Items(layers)) |->
                   <<Items(layers)[i][1],
                     Put(Items(layers)[i][2], "name", S(Items(layers)[i][1]))>>]))

\* lines 203-204
HasBefore(centry) ==
  GetOr(GetOr(centry, "cache", D(<<>>)), "type", NoneV) \in {S("sqlite"), S("files")}

\* lines 199-207: the loop over one layer's sources
RECURSIVE SourcesToCaches(_, _, _, _, _)
SourcesToCaches(name, sources, j, caches, layer2caches) ==
  IF j > Len(sources) THEN layer2caches
  ELSE IF ~HasKey(caches, sources[j][2])
       THEN SourcesToCaches(name, sources, j + 1, caches, layer2caches)
       ELSE LET centry0 == Put(Get(caches, sources[j][2]), "name", sources[j])
                centry == Put(centry0, "hasBefore", B(HasBefore(centry0)))
                sofar == IF HasKey(layer2caches, name) THEN Items(Get(layer2caches, name))
                         ELSE <<>>
            IN Bind(Put(layer2caches, name, L(Append(sofar, centry))), LAMBDA nl2c :
                 SourcesToCaches(name, sources, j + 1, caches, nl2c))

\* lines 194-207: the loop over the layers
RECURSIVE LayersToCaches(_, _, _, _)
LayersToCaches(layerlist, i, caches, layer2caches) ==
  IF i > Len(layerlist) THEN layer2caches
  ELSE LET name == GetOr(layerlist[i], "name", NoneV)
           sources == GetOr(layerlist[i], "sources", L(<<>>))
       IN IF name = NoneV THEN LayersToCaches(layerlist, i + 1, caches, layer2caches)
          ELSE Bind(SourcesToCaches(name[2], Items(sources), 1, caches, layer2caches),
                    LAMBDA nl2c : LayersToCaches(layerlist, i + 1, caches, nl2c))

\* returns <<"ok", cfg, layer2caches>> or the exception
LayerList(layers) ==
  IF IsList(layers) THEN Items(layers)
  ELSE [i \in 1..Len(Items(layers)) |-> Items(layers)[i][2]]
parseAndCheckConfig(files, offline) ==
  Bind(loadConfigFile(files, ConfigFile), LAMBDA loaded :
    IF IsError(loaded) THEN loaded
    ELSE Bind(IF offline THEN MarkSeedOnly(loaded) ELSE loaded, LAMBDA cfg :
           IF ~HasKey(cfg, "layers") \/ ~HasKey(cfg, "caches")
           THEN <<"ok", cfg, D(<<>>)>>
           ELSE Bind(NameLayers(cfg), LAMBDA named :
                  Bind(LayerList(Get(named, "layers")), LAMBDA layerlist :
                    Bind(Get(named, "caches"), LAMBDA caches :
                      <<"ok", named, LayersToCaches(layerlist, 1, caches, D(<<>>))>>)))))

\* ------------------------------------------------------------------------
\* yaml.safe_dump: mappings are written with their keys sorted
\* ------------------------------------------------------------------------
KeyOrder == <<"base", "c0", "c1", "cache", "caches", "layers", "name", "osm", "seed_only", "sources", "type", "x", "y", "z">>
RECURSIVE Dump(_)
RECURSIVE DumpSorted(_, _)
DumpSorted(d, j) ==
  IF j > Len(KeyOrder) THEN <<>>
  ELSE (IF HasKey(d, KeyOrder[j]) THEN << <<KeyOrder[j], Dump(Get(d, KeyOrder[j]))>> >>
        ELSE <<>>) \o DumpSorted(d, j + 1)
Dump(v) ==
  IF IsDict(v) THEN D(DumpSorted(v, 1))
  ELSE IF IsList(v) THEN L([i \in 1..Len(Items(v)) |-> Dump(Items(v)[i])])
  ELSE v

\* ------------------------------------------------------------------------
\* The configuration files the lifecycle runs on
\* ------------------------------------------------------------------------
BaseDoc ==
  D(<< <<"caches", D(<< <<"c0", D(<< <<"cache", D(<< <<"type", S("files")>> >>)>> >>)>> >>)>>,
       <<"layers", D(<< <<"y", D(<< <<"sources", L(<<S("c0")>>)>> >>)>> >>)>>,
       <<"sources", D(<< <<"osm", D(<< <<"type", S("tile")>> >>)>> >>)>> >>)
\* a child of base.yaml with a layer in sequence form and a cache of its own
DocLayered ==
  D(<< <<"base", S(BaseFile)>>,
       <<"layers", L(<< D(<< <<"name", S("x")>>, <<"sources", L(<<S("c1"), S("c0")>>)>> >>) >>)>>,
       <<"caches", D(<< <<"c1", D(<< <<"cache", D(<< <<"type", S("s3")>> >>)>> >>)>> >>)>> >>)
\* a child of base.yaml whose caches are a sequence: a merge conflict
DocConflict ==
  D(<< <<"base", L(<<S(AbsoluteFile), S(BaseFile)>>)>>, <<"caches", L(<<S("c1")>>)>> >>)
\* a document without caches: no layer/cache mapping
DocPlain ==
  D(<< <<"layers", L(<< D(<< <<"name", S("z")>>, <<"sources", L(<<S("c1")>>)>> >>) >>)>>,
       <<"sources", D(<< <<"osm", D(<< <<"type", S("tile")>> >>)>> >>)>> >>)
ConfigContents == {DocLayered, DocConflict, DocPlain, Malformed}


\* the source files on disk when mapproxy.yaml holds doc
SourceFiles(doc) ==
  [f \in FileNames |->
     IF f = ConfigFile THEN doc ELSE IF f = BaseFile THEN BaseDoc ELSE Absent]

\* parseAndCheckConfig and yaml.safe_dump of its result, tabulated over the
\* contents mapproxy.yaml can have (only that file changes)
Tabulate(doc, offline) ==
  Bind(parseAndCheckConfig(SourceFiles(doc), offline), LAMBDA parsed :
    IF IsError(parsed) THEN <<parsed, NoneV>> ELSE <<parsed, Dump(parsed[2])>>)
ParseTable ==
  << [doc \in ConfigContents \cup {Absent} |-> Tabulate(doc, FALSE)],
     [doc \in ConfigContents \cup {Absent} |-> Tabulate(doc, TRUE)] >>
Parsed(files, offline) == ParseTable[IF offline THEN 2 ELSE 1][files[ConfigFile]]

\* ------------------------------------------------------------------------
\* createConfigAndMappings
\* ------------------------------------------------------------------------
\* mutant: the file of the other mode is left in place
UnlinkOther_Skipped(files, other) ==
  files
\* lines 227-231: os.unlink(other), failure ignored
UnlinkOther(files, other) ==
  [files EXCEPT ![other] = Absent]

\* line 221: os.replace(tmpname,outname)
ReplaceTmp(files, tmpname, outname) ==
  [files EXCEPT ![outname] = files[tmpname], ![tmpname] = Absent]

PersistOutcomes == {"ok", "write", "replace"}

\* lines 213-232.  persist is what the file system does: "ok", or the step
\* that raises: "write" (yaml.safe_dump into the opened temporary file, which
\* is left behind), "replace" (os.replace, the temporary file is then
\* unlinked by the finally clause).
\* Returns the files, the new layerMappings and the exception (NoneV: none).
createConfigAndMappings(files, isOffline, persist) ==
  LET parsed == Parsed(files, isOffline)[1]
      dumped == Parsed(files, isOffline)[2]
      outname == getConfigName(isOffline)
      tmpname == TmpName(outname)
      other == getConfigName(~isOffline)
  IN IF IsError(parsed) THEN [files |-> files, mappings |-> NoneV, exc |-> parsed]
     ELSE IF persist = "write"
     THEN [files |-> [files EXCEPT ![tmpname] = Partial], mappings |-> NoneV,
           exc |-> Err("OSError", "cannot write")]
     ELSE IF persist = "replace"
     THEN [files |-> [files EXCEPT ![tmpname] = Absent], mappings |-> NoneV,
           exc |-> Err("OSError", "cannot replace")]
     ELSE LET written == [files EXCEPT ![tmpname] = dumped]
              replaced == ReplaceTmp(written, tmpname, outname)
              cleaned == [replaced EXCEPT ![tmpname] = Absent]
          IN [files |-> UnlinkOther(cleaned, other), mappings |-> parsed[3], exc |-> NoneV]

\* ------------------------------------------------------------------------
\* getFatalError / getStatus / OwnLogHandler
\* ------------------------------------------------------------------------
\* lines 62-81: what OwnLogHandler.emit leaves in the handler's fatalError for
\* a record of the given level (the text of the record, formatted from its
\* message or its exception, is one text here)
emit(hf, level) ==
  IF level = "FATAL" THEN S("fatal record") ELSE hf

\* lines 83-87: OwnLogHandler.getFatalError
handlerGetFatalError(hf, reset) ==
  [val |-> hf, handler |-> IF reset THEN NoneV ELSE hf]

\* lines 263-269: MapProxyWrapper.getFatalError
getFatalError(own, hf, reset) ==
  IF own # NoneV
  THEN [val |-> own, own |-> IF reset THEN NoneV ELSE own, handler |-> hf]
  ELSE [val |-> handlerGetFatalError(hf, reset).val,
        own |-> IF reset THEN NoneV ELSE own,
        handler |-> handlerGetFatalError(hf, reset).handler]

\* mutant: a pending fatal error is reported even while an Application is held
StatusOf_ErrorFirst(app, error) ==
  IF error # NoneV THEN <<"status", app # NoneV, "error", error>>
  ELSE IF app # NoneV THEN <<"status", TRUE, "ok", NoneV>>
  ELSE <<"status", FALSE, "unknown", error>>
\* lines 272-283: <<"status", running, status, lastError>>
StatusOf(app, error) ==
  IF app # NoneV THEN <<"status", TRUE, "ok", NoneV>>
  ELSE IF error # NoneV THEN <<"status", FALSE, "error", error>>
  ELSE <<"status", FALSE, "unknown", error>>

getStatus == StatusOf(mapproxy, getFatalError(fatalError, handlerFatal, FALSE).val)

\* lines 324-325
getMappings == layerMappings

\* ------------------------------------------------------------------------
\* Bounds and inputs of the lifecycle
\* ------------------------------------------------------------------------
MaxMtime == 2
FactoryErrors == {"engine rejected the configuration"}
LogLevels == {"ERROR", "FATAL"}

\* The record of a call: its arguments, its outcome, and what held when it was
\* made (cond: an Application was held and the file's mtime was the recorded
\* timestamp; exists: the config file existed).  stage: how far createProxy
\* got; idem: whether a completed createConfigAndMappings rewrote a file built
\* from the same source in the same mode with the same content.
NoCall ==
  [op |-> "init", changedOnly |-> FALSE, offline |-> FALSE, reset |-> FALSE,
   out |-> "none", val |-> NoneV, stage |-> "none", idem |-> "n/a",
   cond |-> FALSE, exists |-> FALSE]
Call(op) == [NoCall EXCEPT !.op = op]
NoBuild == <<"nobuild">>
BuilderIdle == [at |-> "idle", offline |-> FALSE, prior |-> NoneV, stamp |-> NoneV, exc |-> ""]
RequestIdle == [at |-> "idle", seen |-> NoneV, racing |-> FALSE, prior |-> NoneV]

\* line 252: the Application make_wsgi_app builds from the persisted file
Application(name) == <<"app", name>>

\* lines 107-121: the state after construction
InitWrapper ==
  /\ mapproxy = NoneV
  /\ fatalError = NoneV
  /\ configTimeStamp = NoneV
  /\ layerMappings = D(<<>>)
  /\ handlerFatal = NoneV

\* a configuration and its base on disk, nothing persisted yet
InitLife ==
  /\ fs = SourceFiles(DocLayered)
  /\ mtime = 1
  /\ InitWrapper
  /\ ret = NoCall
  /\ prevBuild = NoBuild
  /\ builder = BuilderIdle
  /\ request = RequestIdle

HarnessIdle ==
  /\ mCurrent = D(<<>>)
  /\ mBase = D(<<>>)
  /\ mResult = Pending
  /\ hHeaders = <<>>
  /\ hEnv = Pending

Init == InitLife /\ HarnessIdle

\* mutant: changedOnly is honoured even when no Application is held
EffectiveChangedOnly_NotForced(changedOnly) ==
  changedOnly
\* lines 236-237
EffectiveChangedOnly(changedOnly) ==
  IF mapproxy = NoneV \/ configTimeStamp = NoneV THEN FALSE ELSE changedOnly

\* mutant: the mappings of the previous build survive a failed build
FailureMappings_Kept ==
  layerMappings
\* line 255: self.layerMappings={}
FailureMappings ==
  D(<<>>)

\* whether a completed createConfigAndMappings rewrote the file it had built
\* before from the same source with the same content
Idempotence(files, isOffline) ==
  IF fs[getConfigName(isOffline)] # Absent /\ prevBuild = fs[ConfigFile]
  THEN (IF files[getConfigName(isOffline)] = fs[getConfigName(isOffline)]
        THEN "same" ELSE "differs")
  ELSE "n/a"

\* lines 235-261, run without interleaving.  The caller's arguments are
\* changedOnly and isOffline; persist is what the file system does to
\* createConfigAndMappings, factoryFails and factoryText what make_wsgi_app
\* does, logsFatal whether the engine logs a fatal record while it builds.
createProxy(changedOnly, isOffline, persist, factoryFails, factoryText, logsFatal) ==
  LET call == [Call("createProxy") EXCEPT
                 !.changedOnly = changedOnly, !.offline = isOffline,
                 !.cond = (mapproxy # NoneV /\ I(mtime) = configTimeStamp),
                 !.exists = (fs[ConfigFile] # Absent)]
  IN
  IF fs[ConfigFile] = Absent
  THEN \* lines 238-240
       /\ mapproxy' = NoneV
       /\ ret' = [call EXCEPT !.out = "raise", !.val = S("config file %s not found"),
                              !.stage = "missing"]
       /\ UNCHANGED <<fs, mtime, configTimeStamp, fatalError, layerMappings, handlerFatal,
                      prevBuild>>
  ELSE IF EffectiveChangedOnly(changedOnly) /\ I(mtime) = configTimeStamp
  THEN \* lines 242-245
       /\ ret' = [call EXCEPT !.out = "false", !.stage = "skip"]
       /\ UNCHANGED <<fs, mtime, wrapperVars, prevBuild>>
  ELSE \* lines 246-261
       LET built == createConfigAndMappings(fs, isOffline, persist)
           logged == IF logsFatal THEN emit(handlerFatal, "FATAL") ELSE handlerFatal
       IN /\ fs' = built.files
          /\ configTimeStamp' = I(mtime)
          /\ UNCHANGED mtime
          /\ IF built.exc # NoneV
             THEN \* createConfigAndMappings raised: lines 254-258
                  /\ mapproxy' = NoneV
                  /\ layerMappings' = FailureMappings
                  /\ fatalError' = S(built.exc[3])
                  /\ UNCHANGED <<handlerFatal, prevBuild>>
                  /\ ret' = [call EXCEPT !.out = "raise", !.val = S(built.exc[3]),
                                         !.stage = "config"]
             ELSE IF factoryFails
             THEN \* make_wsgi_app raised: lines 254-258
                  /\ mapproxy' = NoneV
                  /\ layerMappings' = FailureMappings
                  /\ fatalError' = S(factoryText)
                  /\ handlerFatal' = logged
                  /\ prevBuild' = fs[ConfigFile]
                  /\ ret' = [call EXCEPT !.out = "raise", !.val = S(factoryText),
                                         !.stage = "factory",
                                         !.idem = Idempotence(built.files, isOffline)]
             ELSE \* lines 252-253, 260-261: the Application is built from the
                  \* persisted file, then self.getFatalError(True)
                  /\ mapproxy' = Application(getConfigName(isOffline))
                  /\ layerMappings' = built.mappings
                  /\ fatalError' = getFatalError(NoneV, logged, TRUE).own
                  /\ handlerFatal' = getFatalError(NoneV, logged, TRUE).handler
                  /\ prevBuild' = fs[ConfigFile]
                  /\ ret' = [call EXCEPT !.out = "true", !.stage = "built",
                                         !.idem = Idempotence(built.files, isOffline)]

\* what the environment does to one build: the file system fails in
\* createConfigAndMappings, or make_wsgi_app runs and raises or returns, the
\* engine logging a fatal record meanwhile or not
BuildOutcomes ==
  {<<persist, FALSE, "", FALSE>> : persist \in PersistOutcomes \ {"ok"}}
    \cup {<<"ok", FALSE, "", logsFatal>> : logsFatal \in BOOLEAN}
    \cup {<<"ok", TRUE, text, logsFatal>> : text \in FactoryErrors, logsFatal \in BOOLEAN}

CreateProxy ==
  /\ \E changedOnly \in BOOLEAN, isOffline \in BOOLEAN, o \in BuildOutcomes :
       createProxy(changedOnly, isOffline, o[1], o[2], o[3], o[4])
  /\ UNCHANGED <<mergeVars, envVars, threadVars>>

\* createConfigAndMappings called on its own (lines 213-232)
CreateConfigAndMappings ==
  /\ \E isOffline \in BOOLEAN, persist \in PersistOutcomes :
       LET built == createConfigAndMappings(fs, isOffline, persist)
       IN /\ fs' = built.files
          /\ IF built.exc # NoneV
             THEN /\ UNCHANGED <<layerMappings, prevBuild>>
                  /\ ret' = [Call("createConfigAndMappings") EXCEPT
                               !.offline = isOffline, !.out = "raise"]
             ELSE /\ layerMappings' = built.mappings
                  /\ prevBuild' = fs[ConfigFile]
                  /\ ret' = [Call("createConfigAndMappings") EXCEPT
                               !.offline = isOffline, !.out = "return",
                               !.idem = Idempotence(built.files, isOffline)]
  /\ UNCHANGED <<mtime, mapproxy, configTimeStamp, fatalError, handlerFatal>>
  /\ UNCHANGED <<mergeVars, envVars, threadVars>>

\* MapProxyWrapper.getFatalError(reset) called by the host (lines 263-269)
GetFatalError ==
  /\ \E reset \in BOOLEAN :
       LET r == getFatalError(fatalError, handlerFatal, reset)
       IN /\ fatalError' = r.own
          /\ handlerFatal' = r.handler
          /\ ret' = [Call("getFatalError") EXCEPT !.reset = reset, !.out = "return",
                                                  !.val = r.val]
  /\ UNCHANGED <<fs, mtime, mapproxy, configTimeStamp, layerMappings, prevBuild>>
  /\ UNCHANGED <<mergeVars, envVars, threadVars>>

\* a record of the engine's logger reaches OwnLogHandler
Emit ==
  /\ \E level \in LogLevels :
       /\ handlerFatal' = emit(handlerFatal, level)
       /\ ret' = [Call("emit") EXCEPT !.out = level]
  /\ UNCHANGED <<fs, mtime, mapproxy, configTimeStamp, fatalError, layerMappings, prevBuild>>
  /\ UNCHANGED <<mergeVars, envVars, threadVars>>

\* the host's user edits the configuration file
WriteConfig ==
  /\ \E doc \in ConfigContents, t \in 1..MaxMtime :
       /\ fs' = [fs EXCEPT ![ConfigFile] = doc]
       /\ mtime' = t
  /\ ret' = Call("writeConfig")
  /\ UNCHANGED <<wrapperVars, prevBuild>>
  /\ UNCHANGED <<mergeVars, envVars, threadVars>>

\* the configuration file is removed
RemoveConfig ==
  /\ fs[ConfigFile] # Absent
  /\ fs' = [fs EXCEPT ![ConfigFile] = Absent]
  /\ ret' = Call("removeConfig")
  /\ UNCHANGED <<mtime, wrapperVars, prevBuild>>
  /\ UNCHANGED <<mergeVars, envVars, threadVars>>

Next ==
  \/ CreateProxy
  \/ CreateConfigAndMappings
  \/ GetFatalError
  \/ Emit
  \/ WriteConfig
  \/ RemoveConfig

Spec == Init /\ [][Next]_vars

\* ------------------------------------------------------------------------
\* createProxy and handleRequest on two threads: createProxy statement by
\* statement, handleRequest at its two reads of self.mapproxy
\* ------------------------------------------------------------------------
\* lines 236-245: the checks on entry.  prior is the Application held when
\* the call began.
BuildEnter ==
  /\ builder.at = "idle"
  /\ \E changedOnly \in BOOLEAN, isOffline \in BOOLEAN :
       IF fs[ConfigFile] = Absent
       THEN /\ mapproxy' = NoneV
            /\ builder' = BuilderIdle
       ELSE IF EffectiveChangedOnly(changedOnly) /\ I(mtime) = configTimeStamp
       THEN UNCHANGED <<mapproxy, builder>>
       ELSE /\ builder' = [BuilderIdle EXCEPT !.at = "clear", !.offline = isOffline,
                                               !.prior = mapproxy, !.stamp = I(mtime)]
            /\ UNCHANGED mapproxy
  /\ UNCHANGED <<fs, mtime, configTimeStamp, fatalError, layerMappings, handlerFatal,
                 ret, prevBuild, request>>
  /\ UNCHANGED <<mergeVars, envVars>>

\* lines 246-248: self.fatalError = None; self.mapproxy = None;
\* self.configTimeStamp=st.st_mtime
BuildClear ==
  /\ builder.at = "clear"
  /\ fatalError' = NoneV
  /\ mapproxy' = NoneV
  /\ configTimeStamp' = builder.stamp
  /\ builder' = [builder EXCEPT !.at = "config"]
  /\ UNCHANGED <<fs, mtime, layerMappings, handlerFatal, ret, prevBuild, request>>
  /\ UNCHANGED <<mergeVars, envVars>>

\* line 251: self.createConfigAndMappings(isOffline)
BuildConfig ==
  /\ builder.at = "config"
  /\ \E persist \in PersistOutcomes :
       LET built == createConfigAndMappings(fs, builder.offline, persist)
       IN /\ fs' = built.files
          /\ IF built.exc # NoneV
             THEN /\ builder' = [builder EXCEPT !.at = "except", !.exc = built.exc[3]]
                  /\ UNCHANGED layerMappings
             ELSE /\ builder' = [builder EXCEPT !.at = "factory"]
                  /\ layerMappings' = built.mappings
  /\ UNCHANGED <<mtime, mapproxy, configTimeStamp, fatalError, handlerFatal, ret, prevBuild,
                 request>>
  /\ UNCHANGED <<mergeVars, envVars>>

\* line 252: self.mapproxy = make_wsgi_app(...)
BuildFactory ==
  /\ builder.at = "factory"
  /\ \E factoryFails \in BOOLEAN, factoryText \in FactoryErrors :
       IF factoryFails
       THEN /\ builder' = [builder EXCEPT !.at = "except", !.exc = factoryText]
            /\ UNCHANGED mapproxy
       ELSE /\ mapproxy' = Application(getConfigName(builder.offline))
            /\ builder' = [builder EXCEPT !.at = "reset"]
  /\ UNCHANGED <<fs, mtime, configTimeStamp, fatalError, layerMappings, handlerFatal, ret,
                 prevBuild, request>>
  /\ UNCHANGED <<mergeVars, envVars>>

\* line 253: self.getFatalError(True); lines 260-261
BuildReset ==
  /\ builder.at = "reset"
  /\ fatalError' = getFatalError(fatalError, handlerFatal, TRUE).own
  /\ handlerFatal' = getFatalError(fatalError, handlerFatal, TRUE).handler
  /\ builder' = BuilderIdle
  /\ UNCHANGED <<fs, mtime, mapproxy, configTimeStamp, layerMappings, ret, prevBuild, request>>
  /\ UNCHANGED <<mergeVars, envVars>>

\* lines 254-258: the except clause
BuildExcept ==
  /\ builder.at = "except"
  /\ layerMappings' = FailureMappings
  /\ fatalError' = S(builder.exc)
  /\ builder' = BuilderIdle
  /\ UNCHANGED <<fs, mtime, mapproxy, configTimeStamp, handlerFatal, ret, prevBuild, request>>
  /\ UNCHANGED <<mergeVars, envVars>>

\* whether createProxy is between its entry checks and its return
Rebuilding == builder.at \in {"clear", "config", "factory", "reset", "except"}

\* line 376: if self.mapproxy is None: raise.  The request records the handle
\* it read and, when a rebuild is under way, the Application that rebuild
\* began with.
RequestCheck ==
  /\ request.at = "idle"
  /\ request' = [at |-> IF mapproxy = NoneV THEN "raised" ELSE "run",
                 seen |-> mapproxy, racing |-> Rebuilding,
                 prior |-> IF Rebuilding THEN builder.prior ELSE mapproxy]
  /\ UNCHANGED <<fs, mtime, wrapperVars, ret, prevBuild, builder>>
  /\ UNCHANGED <<mergeVars, envVars>>

\* line 386: shandler.run(self.mapproxy), the second read
RequestRun ==
  /\ request.at = "run"
  /\ request' = [at |-> "done", seen |-> mapproxy,
                 racing |-> (request.racing \/ Rebuilding),
                 prior |-> IF Rebuilding THEN builder.prior ELSE request.prior]
  /\ UNCHANGED <<fs, mtime, wrapperVars, ret, prevBuild, builder>>
  /\ UNCHANGED <<mergeVars, envVars>>

\* the request is over (it raised "mapproxy not created" or was served)
RequestEnd ==
  /\ request.at \in {"raised", "done"}
  /\ request' = RequestIdle
  /\ UNCHANGED <<fs, mtime, wrapperVars, ret, prevBuild, builder>>
  /\ UNCHANGED <<mergeVars, envVars>>

\* the configuration file is edited or removed while the threads run
TouchConfig ==
  /\ \E doc \in {DocLayered, DocConflict, Absent}, t \in 1..MaxMtime :
       /\ fs' = [fs EXCEPT ![ConfigFile] = doc]
       /\ mtime' = t
  /\ UNCHANGED <<wrapperVars, ret, prevBuild, threadVars>>
  /\ UNCHANGED <<mergeVars, envVars>>

NextConc ==
  \/ BuildEnter
  \/ BuildClear
  \/ BuildConfig
  \/ BuildFactory
  \/ BuildReset
  \/ BuildExcept
  \/ RequestCheck
  \/ RequestRun
  \/ RequestEnd
  \/ TouchConfig

SpecConc == Init /\ [][NextConc]_vars

\* ------------------------------------------------------------------------
\* Environment harness: the requests the synthesis is applied to
\* ------------------------------------------------------------------------
MaxHeaders == 3

N_X_CUSTOM == <<"X", "-", "C", "u", "s", "t", "o", "m">>
N_x_custom == <<"x", "_", "c", "u", "s", "t", "o", "m">>
N_HTTP_X_CUSTOM == <<"H", "t", "t", "p", "-", "X", "-", "C", "u", "s", "t", "o", "m">>
N_CONTENT_TYPE == <<"C", "o", "n", "t", "e", "n", "t", "-", "T", "y", "p", "e">>
N_Content_Length == <<"c", "o", "n", "t", "e", "n", "t", "-", "l", "e", "n", "g", "t", "h">>
N_SERVER_NAME == <<"S", "e", "r", "v", "e", "r", "-", "N", "a", "m", "e">>
V_a == <<"a">>
V_b == <<"b">>
V_b_spaced == <<" ", "b", " ">>
HeaderNames ==
  {N_X_CUSTOM, N_x_custom, N_HTTP_X_CUSTOM, N_CONTENT_TYPE, N_Content_Length, N_SERVER_NAME}
HeaderValues == {V_a, V_b, V_b_spaced}
HeaderLists ==
  UNION {[1..n -> HeaderNames \X HeaderValues] : n \in 0..MaxHeaders}

Prefix == <<"/", "p">>
Handler(headers) ==
  [server_port |-> <<"8", "0">>, request_version |-> <<"H", "T", "T", "P", "/", "1", ".", "1">>, command |-> <<"G", "E", "T">>,
   path |-> <<"/", "p", "/", "t", "%", "2", "0", "1", ".", "p", "n", "g", "?", "x", "=", "1">>, client_address |-> <<"1", ".", "2", ".", "3", ".", "4">>,
   address_string |-> <<"1", ".", "2", ".", "3", ".", "4">>, headers |-> headers]

InitEnv ==
  /\ hHeaders \in HeaderLists
  /\ hEnv = Pending
  /\ mCurrent = D(<<>>)
  /\ mBase = D(<<>>)
  /\ mResult = Pending
  /\ InitLife

\* handleRequest line 382: self._getWsgiEnv(handler)
ApplyEnv ==
  /\ hEnv = Pending
  /\ hEnv' = getWsgiEnv(Handler(hHeaders), Prefix)
  /\ UNCHANGED <<hHeaders, mergeVars, lifeVars>>

NextEnv == ApplyEnv

SpecEnv == InitEnv /\ [][NextEnv]_vars

\* ------------------------------------------------------------------------
\* Merge harness: the documents the merge is applied to
\* ------------------------------------------------------------------------
MaxInt == 1

IntVals == {I(n) : n \in 0..MaxInt}
Scalars == IntVals \cup {S("a")}
Leaves == Scalars \cup {L(<<s>>) : s \in IntVals}
OptPair(k, vals) == {<<>>} \cup {<< <<k, v>> >> : v \in vals}

InnerDicts == {D(<< <<"q", v>> >>) : v \in {I(0), S("a")}}
NestedDicts ==
  {D(pl \o pp) : pl \in OptPair("layers", {I(0), L(<<I(0)>>)}),
                 pp \in OptPair("p", Scalars \cup InnerDicts)}

EntriesX == {D(<< <<"a", I(0)>>, <<"b", I(2)>> >>), D(<< <<"a", I(1)>> >>),
             D(<< <<"a", S("a")>> >>)}
EntriesY == {D(<< <<"c", I(3)>> >>)}
WithName(n, e) == D(<< <<"name", S(n)>> >> \o Items(e))
LayersDictForms ==
  {D(px \o py) : px \in OptPair("x", EntriesX), py \in OptPair("y", EntriesY)}
LayersListForms ==
  {L(lx \o ly) : lx \in {<<>>} \cup {<<WithName("x", e)>> : e \in EntriesX},
                 ly \in {<<>>} \cup {<<WithName("y", e)>> : e \in EntriesY}}
LayersMalformed == {L(<<D(<< <<"a", I(1)>> >>)>>), S("a")}
LayersVals == LayersDictForms \cup LayersListForms \cup LayersMalformed

Docs ==
  {D(pl \o pk) : pl \in OptPair("layers", LayersVals),
                 pk \in OptPair("k", Leaves \cup NestedDicts)}

InitMerge ==
  /\ mCurrent \in Docs
  /\ mBase \in Docs
  /\ mResult = Pending
  /\ hHeaders = <<>>
  /\ hEnv = Pending
  /\ InitLife

\* _mergeBaseFiles line 158: cfg = self._mergeCfg(cfg, baseCfg, True)
ApplyMerge ==
  /\ mResult = Pending
  /\ mResult' = mergeCfg(mCurrent, mBase, TRUE)
  /\ UNCHANGED <<mCurrent, mBase, envVars, lifeVars>>

NextMerge == ApplyMerge

SpecMerge == InitMerge /\ [][NextMerge]_vars

\* ------------------------------------------------------------------------
\* Claims about the merge (C6, C7, C8), checked under SpecMerge
\* ------------------------------------------------------------------------
Shape(v) == IF IsDict(v) THEN "mapping" ELSE IF IsList(v) THEN "sequence" ELSE "scalar"
Merged == mResult # Pending /\ ~IsError(mResult)
BothHave(k) == HasKey(mCurrent, k) /\ HasKey(mBase, k)

\* The merge rule of the claim, stated on the three documents: every key of
\* either side, one-sided keys unchanged, the child's non-mapping value over
\* the base's, mappings by the same rule.  exceptLayers leaves the key
\* `layers` of the top level out of the two-sided rules.
RECURSIVE FollowsMergeRule(_, _, _, _)
FollowsMergeRule(a, b, r, exceptLayers) ==
  /\ IsDict(r)
  /\ Keys(r) = Keys(a) \cup Keys(b)
  /\ \A k \in Keys(a) \ Keys(b) : Get(r, k) = Get(a, k)
  /\ \A k \in Keys(b) \ Keys(a) : Get(r, k) = Get(b, k)
  /\ \A k \in Keys(a) \cap Keys(b) :
       \/ exceptLayers /\ k = "layers"
       \/ /\ IsDict(Get(a, k)) /\ IsDict(Get(b, k))
          /\ FollowsMergeRule(Get(a, k), Get(b, k), Get(r, k), FALSE)
       \/ /\ ~IsDict(Get(a, k)) /\ ~IsDict(Get(b, k))
          /\ Get(r, k) = Get(a, k)

\* C6 as stated: whenever the merge of child mCurrent into base mBase
\* succeeds, the result holds every key of both, one-sided keys keep their
\* value, the child's scalar or sequence overwrites the base's, mappings are
\* merged recursively - for every key, `layers` included.
C6_MergeDirection_AsStated ==
  Merged => FollowsMergeRule(mCurrent, mBase, mResult, FALSE)

\* C6 amended: the same rule for every key except a `layers` key present on
\* both sides at top level (which is reconciled by layer name instead).
C6_MergeDirection ==
  Merged => FollowsMergeRule(mCurrent, mBase, mResult, TRUE)

\* C6 witness: a successful merge with a nested mapping on both sides whose
\* shared scalar differs, and a base-only key.
C6_Witness ==
  /\ Merged
  /\ BothHave("k") /\ IsDict(Get(mCurrent, "k")) /\ IsDict(Get(mBase, "k"))
  /\ HasKey(Get(mCurrent, "k"), "p") /\ HasKey(Get(mBase, "k"), "p")
  /\ Get(Get(mCurrent, "k"), "p") = I(0) /\ Get(Get(mBase, "k"), "p") = I(1)
  /\ HasKey(mBase, "layers") /\ ~HasKey(mCurrent, "layers")

\* layers in either representation, seen by name
WellFormedLayers(lv) ==
  \/ IsDict(lv) /\ \A i \in 1..Len(Items(lv)) : IsDict(Items(lv)[i][2])
  \/ IsList(lv) /\ \A i \in 1..Len(Items(lv)) :
        /\ IsDict(Items(lv)[i])
        /\ HasKey(Items(lv)[i], "name")
        /\ PyType(Get(Items(lv)[i], "name")) = "str"
LayerNames(lv) ==
  IF IsDict(lv) THEN Keys(lv)
  ELSE {Get(Items(lv)[i], "name")[2] : i \in 1..Len(Items(lv))}
LayerEntry(lv, n) ==
  IF IsDict(lv) THEN Get(lv, n)
  ELSE Items(lv)[CHOOSE i \in 1..Len(Items(lv)) : Get(Items(lv)[i], "name")[2] = n]
Fields(e) == Keys(e) \ {"name"}
LayerCount(lv) == Len(Items(lv))

\* C7 as stated: when both sides define well-formed layers at top level, the
\* merged layers hold every layer name of either side exactly once, a layer
\* of both sides takes the child's fields and keeps the base's fields the
\* child does not set, and a base-only layer keeps its fields.
C7_LayerReconciliation ==
  (Merged /\ BothHave("layers")
     /\ WellFormedLayers(Get(mCurrent, "layers")) /\ WellFormedLayers(Get(mBase, "layers")))
  => LET la == Get(mCurrent, "layers")
         lb == Get(mBase, "layers")
         lr == Get(mResult, "layers")
     IN /\ WellFormedLayers(lr)
        /\ LayerNames(lr) = LayerNames(la) \cup LayerNames(lb)
        /\ LayerCount(lr) = Cardinality(LayerNames(lr))
        /\ \A n \in LayerNames(la) \cap LayerNames(lb) :
             /\ \A f \in Fields(LayerEntry(la, n)) :
                  /\ HasKey(LayerEntry(lr, n), f)
                  /\ Get(LayerEntry(lr, n), f) = Get(LayerEntry(la, n), f)
             /\ \A f \in Fields(LayerEntry(lb, n)) \ Fields(LayerEntry(la, n)) :
                  /\ HasKey(LayerEntry(lr, n), f)
                  /\ Get(LayerEntry(lr, n), f) = Get(LayerEntry(lb, n), f)
        /\ \A n \in LayerNames(lb) \ LayerNames(la) :
             /\ Fields(LayerEntry(lr, n)) = Fields(LayerEntry(lb, n))
             /\ \A f \in Fields(LayerEntry(lb, n)) :
                  Get(LayerEntry(lr, n), f) = Get(LayerEntry(lb, n), f)

\* The part of C7 the code does satisfy (names once, child's fields win,
\* base-only layers kept); kept as a check of the reconciliation model.
LayerNamesReconciled ==
  (Merged /\ BothHave("layers")
     /\ WellFormedLayers(Get(mCurrent, "layers")) /\ WellFormedLayers(Get(mBase, "layers")))
  => LET la == Get(mCurrent, "layers")
         lb == Get(mBase, "layers")
         lr == Get(mResult, "layers")
     IN /\ IsList(lr) /\ WellFormedLayers(lr)
        /\ LayerNames(lr) = LayerNames(la) \cup LayerNames(lb)
        /\ LayerCount(lr) = Cardinality(LayerNames(lr))
        /\ \A n \in LayerNames(la) :
             /\ Fields(LayerEntry(lr, n)) = Fields(LayerEntry(la, n))
             /\ \A f \in Fields(LayerEntry(la, n)) :
                  Get(LayerEntry(lr, n), f) = Get(LayerEntry(la, n), f)

\* The example of the specification: child [{name:x,a:1}] over base
\* {x:{a:0,b:2}, y:{c:3}}.
SpecExampleChild == D(<< <<"layers", L(<<WithName("x", D(<< <<"a", I(1)>> >>))>>)>> >>)
SpecExampleBase ==
  D(<< <<"layers", D(<< <<"x", D(<< <<"a", I(0)>>, <<"b", I(2)>> >>)>>,
                        <<"y", D(<< <<"c", I(3)>> >>)>> >>)>> >>)
\* what the code computes for it: x is replaced whole (b is lost)
SpecExampleResult ==
  (mCurrent = SpecExampleChild /\ mBase = SpecExampleBase /\ mResult # Pending)
  => mResult = D(<< <<"layers",
                     L(<< D(<< <<"name", S("x")>>, <<"a", I(1)>> >>),
                          D(<< <<"c", I(3)>>, <<"name", S("y")>> >>) >>)>> >>)

\* A key present on both sides whose values differ in the given respect,
\* reached through mappings of both sides; at top level the key `layers` is
\* exempt and, with skipLayers, not descended into.
RECURSIVE HasConflict(_, _, _, _, _)
HasConflict(a, b, top, byShape, intoLayers) ==
  \E k \in Keys(a) \cap Keys(b) :
    LET differ == IF byShape THEN Shape(Get(a, k)) # Shape(Get(b, k))
                  ELSE PyType(Get(a, k)) # PyType(Get(b, k))
    IN \/ differ /\ ~(top /\ k = "layers")
       \/ /\ ~differ /\ IsDict(Get(a, k)) /\ IsDict(Get(b, k))
          /\ intoLayers \/ ~(top /\ k = "layers")
          /\ HasConflict(Get(a, k), Get(b, k), FALSE, byShape, intoLayers)

\* C8 as stated: the merge fails with a merge conflict exactly when some key
\* of both sides, at any depth, has values of different shape (mapping,
\* sequence, scalar) and is not the top-level `layers`.
C8_ConflictExactly_AsStated ==
  mResult # Pending =>
    (IsMergeConflict(mResult) <=> HasConflict(mCurrent, mBase, TRUE, TRUE, TRUE))

\* C8 amended: with top-level layers that reconcile (well formed on both
\* sides, when both have them), the merge fails with a merge conflict
\* exactly when some key of both sides, reached through mappings of equal
\* type without descending into the top-level layers, has values of
\* different runtime type (two scalars of different type included) and is
\* not the top-level `layers`.
C8_ConflictExactly ==
  (mResult # Pending
     /\ (BothHave("layers") =>
           WellFormedLayers(Get(mCurrent, "layers")) /\ WellFormedLayers(Get(mBase, "layers"))))
  => (IsMergeConflict(mResult) <=> HasConflict(mCurrent, mBase, TRUE, FALSE, FALSE))

\* C8 witness: top-level layers of different shapes merged without a
\* conflict, and elsewhere a nested `layers` of different shapes raising one.
C8_Witness ==
  \/ /\ Merged /\ BothHave("layers")
     /\ IsList(Get(mCurrent, "layers")) /\ IsDict(Get(mBase, "layers"))
     /\ LayerNames(Get(mBase, "layers")) = {"x", "y"}
  \/ /\ IsMergeConflict(mResult) /\ BothHave("k")
     /\ IsDict(Get(mCurrent, "k")) /\ IsDict(Get(mBase, "k"))
     /\ HasKey(Get(mCurrent, "k"), "layers") /\ HasKey(Get(mBase, "k"), "layers")
     /\ Get(Get(mCurrent, "k"), "layers") = I(0)
     /\ Get(Get(mBase, "k"), "layers") = L(<<I(0)>>)

\* ------------------------------------------------------------------------
\* Lifecycle claims (specification Spec)
\* ------------------------------------------------------------------------
StatusUnknown == <<"status", FALSE, "unknown", NoneV>>
StatusOk == <<"status", TRUE, "ok", NoneV>>
StatusError(text) == <<"status", FALSE, "error", text>>

\* C1: getStatus follows the lifecycle: a fresh instance reports
\* running=false/unknown; after a createProxy that returned true, and for as
\* long as the Application is held (a fatal error logged meanwhile does not
\* matter), it reports running=true/ok/lastError=null; after a createProxy
\* whose application factory raised it reports running=false/error with
\* lastError the raised exception's message.
C1_StatusLifecycle ==
  /\ (ret.op = "init" => getStatus = StatusUnknown)
  /\ (ret.op = "createProxy" /\ ret.out = "true" => getStatus = StatusOk)
  /\ (mapproxy # NoneV => getStatus = StatusOk)
  /\ (ret.op = "createProxy" /\ ret.stage = "factory" => getStatus = StatusError(ret.val))

\* the factory raised while the engine had logged a fatal record of its own
C1_Witness ==
  /\ ret.op = "createProxy"
  /\ ret.stage = "factory"
  /\ handlerFatal # NoneV
  /\ getStatus = StatusError(S("engine rejected the configuration"))

\* what C2 promises after a createProxy that raised
FailureRecorded ==
  /\ mapproxy = NoneV
  /\ getMappings = D(<<>>)
  /\ fatalError = ret.val
  /\ getStatus[3] = "error"

\* C2 as stated: whenever createProxy raises, for any reason (the config file
\* missing included), no Application is held, getMappings is empty, the
\* exception text is in the fatal-error slot and getStatus reports error.
C2_FailureState_AsStated ==
  (ret.op = "createProxy" /\ ret.out = "raise") => FailureRecorded

\* C2 amended: whenever createProxy raises no Application is held, and when
\* it raises after the config file was found to exist (load, merge, persist
\* or factory error) getMappings is empty, the exception text is in the
\* fatal-error slot and getStatus reports error.
C2_FailureState ==
  /\ (ret.op = "createProxy" /\ ret.out = "raise" => mapproxy = NoneV)
  /\ (ret.op = "createProxy" /\ ret.stage \in {"config", "factory"} => FailureRecorded)

\* a build failed on a merge conflict
C2_Witness ==
  /\ ret.op = "createProxy"
  /\ ret.stage = "config"
  /\ fs[ConfigFile] = DocConflict
  /\ fatalError = S("cannot merge different types")

\* a rebuild was attempted by the last createProxy
RebuildAttempted == ret.stage \in {"config", "factory", "built"}
\* the skip condition of C3 held when the last createProxy was called
SkipCondition == ret.changedOnly /\ ret.cond

\* C3 as stated: createProxy returns false without rebuilding exactly when
\* changedOnly was given, an Application was held and the file's timestamp was
\* the recorded one; in every other case a rebuild is attempted.
C3_SkipExactly_AsStated ==
  ret.op = "createProxy" =>
    /\ (ret.out = "false" <=> SkipCondition)
    /\ (~SkipCondition => RebuildAttempted)

\* C3 amended: for a config file that exists, createProxy returns false
\* without rebuilding exactly when changedOnly was given, an Application was
\* held and the file's timestamp was the recorded one, and then the
\* Application, the mappings, the timestamp, the fatal-error slot and the
\* files are unchanged; in every other case with the file present a rebuild is
\* attempted (also after a failed build with the file untouched); a
\* createProxy that returned true leaves the skip condition true, so the same
\* call repeated with the file untouched returns false.
C3_SkipExactly ==
  /\ [](ret.op = "createProxy" /\ ret.exists =>
          /\ (ret.out = "false" <=> SkipCondition)
          /\ (ret.out = "false" => ~RebuildAttempted)
          /\ (~SkipCondition => RebuildAttempted))
  /\ [](ret.op = "createProxy" /\ ret.out = "false" => ret.exists)
  /\ [](ret.op = "createProxy" /\ ret.out = "true" =>
          mapproxy # NoneV /\ configTimeStamp = I(mtime) /\ fs[ConfigFile] # Absent)
  /\ [][ret'.op = "createProxy" /\ ret'.out = "false" =>
          UNCHANGED <<mapproxy, layerMappings, configTimeStamp, fatalError, handlerFatal, fs>>]_vars

\* a createProxy(changedOnly=true) that was skipped
C3_Witness ==
  /\ ret.op = "createProxy"
  /\ ret.changedOnly
  /\ ret.out = "false"
  /\ mapproxy # NoneV

\* the last call completed a createConfigAndMappings
CcmCompleted ==
  \/ ret.op = "createProxy" /\ ret.stage \in {"factory", "built"}
  \/ ret.op = "createConfigAndMappings" /\ ret.out = "return"
\* exactly the file of the mode just built exists
OnlyBuiltModePersisted ==
  /\ fs[getConfigName(ret.offline)] # Absent
  /\ fs[getConfigName(~ret.offline)] = Absent

C10_ReadAndReset ==
  /\ [](ret.op = "getFatalError" /\ ret.reset =>
          getFatalError(fatalError, handlerFatal, FALSE).val = NoneV)
  /\ [][ret'.op = "getFatalError" /\ ~ret'.reset =>
          UNCHANGED <<fatalError, handlerFatal>>]_vars

\* ------------------------------------------------------------------------
\* Concurrency claim (specification SpecConc)
\* ------------------------------------------------------------------------
\* C4: when createProxy rebuilds while an Application is held, every read
\* of self.mapproxy by a concurrent handleRequest yields the prior
\* Application or the new one.
C4_AtomicReplacement ==
  (request.at \in {"raised", "run", "done"} /\ request.racing /\ request.prior # NoneV)
    => request.seen # NoneV

\* ------------------------------------------------------------------------
\* Environment claim (specification SpecEnv)
\* ------------------------------------------------------------------------
\* the values of the headers named k (after normalisation), in request
\* order, joined by commas
RECURSIVE JoinedValues(_, _, _, _, _)
JoinedValues(headers, k, i, started, acc) ==
  IF i > Len(headers) THEN acc
  ELSE IF NormalizeName(headers[i][1]) # k
       THEN JoinedValues(headers, k, i + 1, started, acc)
       ELSE JoinedValues(headers, k, i + 1, TRUE,
                         IF started THEN acc \o <<",">> \o Strip(headers[i][2])
                         ELSE Strip(headers[i][2]))

\* C9: every header whose normalised name is not a well-known key is in the
\* environment under HTTP_<NAME> with all its values, in request order,
\* joined by commas; the other headers are skipped and the well-known keys
\* keep the values they were assigned.
C9_HeaderFolding ==
  hEnv # Pending =>
    LET wellKnown == WellKnownEnv(Handler(hHeaders), Prefix)
    IN /\ \A i \in 1..Len(hHeaders) :
            LET k == NormalizeName(hHeaders[i][1])
            IN IF HasKey(wellKnown, k)
               THEN ~HasKey(hEnv, HTTP_PREFIX \o k)
               ELSE /\ HasKey(hEnv, HTTP_PREFIX \o k)
                    /\ Get(hEnv, HTTP_PREFIX \o k) = JoinedValues(hHeaders, k, 1, FALSE, <<>>)
       /\ \A j \in 1..Len(Items(wellKnown)) :
            Get(hEnv, Items(wellKnown)[j][1]) = Items(wellKnown)[j][2]

====
